---- MODULE Spec2Model ----
(***************************************************************************)
(* A model of CapabilityAgents/Alerts/src/Storage/SQLiteUtils.cpp: the     *)
(* helper layer over the SQLite engine (create / open / close a database   *)
(* file, run a statement, count rows, find the largest value of a column,  *)
(* clear a table).  Every helper is synchronous, so a call is one action.  *)
(* The engine, the file system, the SQLiteStatement wrapper and            *)
(* stringToInt are collaborators: they are modelled by what they answer.   *)
(***************************************************************************)
EXTENDS Integers, Sequences, FiniteSets, TLC

\* ---------------------------------------------------------------- bounds
MaxHandles == 2
MaxRows == 3

\* ------------------------------------------------------------- constants
NULL == 0
INT_MAX == 2147483647

Paths == {"a"}
NoPath == "-"
Handles == 1..MaxHandles

\* A column holds integers or texts; the one text of the model is no number.
IntCells == {[isInt |-> TRUE, n |-> v] : v \in {-2, 1, 3, 5}}
TextCell == [isInt |-> FALSE, n |-> 0]
Cells == IntCells \cup {TextCell}

\* The statements the caller hands to performQuery.
Sql == {[verb |-> "create", cell |-> TextCell], [verb |-> "bad", cell |-> TextCell]}
         \cup {[verb |-> "insert", cell |-> c] : c \in Cells}

OpenChoices == {"ok", "fail_partial", "fail_null"}

\* What the engine answers to the statement of a call: it prepares and
\* steps, or the prepare fails, or the step fails.
StatementChoices == {"ok", "prepare_fails", "step_fails"}

VARIABLES
    fs,          \* Paths -> "absent" | "readable" | "unreadable"
    conns,       \* Handles -> the path of the engine connection, or NoPath
    db,          \* Paths -> [hasTable, rows]: table T of the database file
    stmts,       \* number of SQLiteStatement objects alive
    held,        \* handles returned to the caller and not yet closed with success
    last,        \* what the last call was given, did and returned
    scen,        \* progress of a create / close / open sequence on a fresh path
    cleared      \* Paths -> {N} when clearTable emptied a table of N rows and no
                 \* insert was run since, {} otherwise

vars == <<fs, conns, db, stmts, held, last, scen, cleared>>

\* ------------------------------------------------------------ text <-> int
Digits == <<"0", "1", "2", "3", "4", "5", "6", "7", "8", "9">>

IsDigit(c) == \E d \in 1..10 : Digits[d] = c

DigitVal(c) == (CHOOSE d \in 1..10 : Digits[d] = c) - 1

RECURSIVE NatToText(_)
NatToText(n) ==
    IF n < 10 THEN <<Digits[n + 1]>>
    ELSE Append(NatToText(n \div 10), Digits[(n % 10) + 1])

\* sqlite3_column_text of an integer: its decimal text.
IntToText(n) == IF n < 0 THEN <<"-">> \o NatToText(-n) ELSE NatToText(n)

RECURSIVE ParseDigits(_, _, _)
\* strtol's digit loop: [acc, next] after the longest run of digits from index i.
ParseDigits(str, i, acc) ==
    IF i <= Len(str) /\ IsDigit(str[i])
    THEN ParseDigits(str, i + 1, acc * 10 + DigitVal(str[i]))
    ELSE [acc |-> acc, next |-> i]

\* stringToInt: an optional sign and digits, nothing after them, within int.
stringToInt(str) ==
    LET neg == Len(str) >= 1 /\ str[1] = "-"
        first == IF neg THEN 2 ELSE 1
        p == ParseDigits(str, first, 0)
        value == IF neg THEN -p.acc ELSE p.acc
    IN  IF p.next = first THEN [ok |-> FALSE, value |-> 0]
        ELSE IF p.next <= Len(str) THEN [ok |-> FALSE, value |-> 0]
        ELSE IF value > INT_MAX \/ value < -INT_MAX - 1 THEN [ok |-> FALSE, value |-> 0]
        ELSE [ok |-> TRUE, value |-> value]

\* ------------------------------------------------------------- the tables
EmptyRows == [c \in Cells |-> 0]
NoTable == [hasTable |-> FALSE, rows |-> EmptyRows]

RECURSIVE SumOver(_, _)
SumOver(f, S) ==
    IF S = {} THEN 0
    ELSE LET x == CHOOSE y \in S : TRUE IN f[x] + SumOver(f, S \ {x})

RowCount(rows) == SumOver(rows, Cells)

TotalRows(d) == SumOver([p \in Paths |-> RowCount(d[p].rows)], Paths)

Present(rows) == {c \in Cells : rows[c] > 0}

\* The first row of ORDER BY col DESC: a text sorts above every integer.
TopCell(rows) ==
    IF rows[TextCell] > 0 THEN TextCell
    ELSE CHOOSE c \in Present(rows) : \A o \in Present(rows) : o.n <= c.n

CellText(c) == IF c.isInt THEN IntToText(c.n) ELSE <<"a", "b", "c">>

\* ------------------------------------------------------------- the engine
NoCalls == [open |-> 0, close |-> 0, exec |-> 0, prepare |-> 0, step |-> 0, finalize |-> 0]

Bump(calls, what) == [calls EXCEPT ![what] = @ + 1]

FreeHandles(w) == {h \in Handles : w.conns[h] = NoPath}

\* sqlite3_open_v2: a connection object is produced even when the open
\* fails, unless the engine could not allocate one.
sqlite3_open_v2(w, filePath, flags, eng) ==
    LET h == CHOOSE x \in FreeHandles(w) : \A y \in FreeHandles(w) : x <= y
        canOpen == \/ w.fs[filePath] = "readable"
                   \/ w.fs[filePath] = "absent" /\ "CREATE" \in flags
    IN  IF eng = "fail_null" THEN [rc |-> "NOMEM", handle |-> NULL, w |-> w]
        ELSE IF eng = "ok" /\ canOpen
        THEN [rc |-> "OK", handle |-> h,
              w |-> [w EXCEPT !.conns[h] = filePath, !.fs[filePath] = "readable"]]
        ELSE [rc |-> "CANTOPEN", handle |-> h, w |-> [w EXCEPT !.conns[h] = filePath]]

\* sqlite3_close: a null handle is a no-op; a busy connection stays open.
sqlite3_close(w, dbHandle, busy) ==
    IF dbHandle = NULL THEN [rc |-> IF busy THEN "MISUSE" ELSE "OK", w |-> w]
    ELSE IF busy THEN [rc |-> "BUSY", w |-> w]
    ELSE [rc |-> "OK", w |-> [w EXCEPT !.conns[dbHandle] = NoPath]]

\* sqlite3_exec of one statement on the database of the connection.
sqlite3_exec(w, dbHandle, sql, engFail) ==
    LET p == w.conns[dbHandle]
        t == w.db[p]
    IN  IF engFail \/ sql.verb = "bad" THEN [rc |-> "ERROR", w |-> w]
        ELSE IF sql.verb = "create"
        THEN IF t.hasTable THEN [rc |-> "ERROR", w |-> w]
             ELSE [rc |-> "OK", w |-> [w EXCEPT !.db[p] = [hasTable |-> TRUE, rows |-> EmptyRows]]]
        ELSE IF ~t.hasTable THEN [rc |-> "ERROR", w |-> w]
        ELSE [rc |-> "OK", w |-> [w EXCEPT !.db[p].rows[sql.cell] = @ + 1]]

\* ------------------------------------------------- the statement wrapper
\* SQLiteStatement(dbHandle, sqlString): prepares the statement.
StatementNew(w, dbHandle, prepFail) ==
    [valid |-> /\ dbHandle # NULL
               /\ ~prepFail
               /\ w.db[w.conns[dbHandle]].hasTable,
     w |-> [w EXCEPT !.stmts = @ + 1]]

\* ~SQLiteStatement(): finalizes the statement.
StatementDelete(w) == [w EXCEPT !.stmts = @ - 1]

\* step() of the three statements the helper builds; ok is step()'s answer,
\* result is getStepResult(), text is getColumnText(0).
StatementStep(w, dbHandle, kind, stepFail) ==
    LET p == w.conns[dbHandle]
        rows == w.db[p].rows
    IN  IF stepFail THEN [ok |-> FALSE, result |-> "BUSY", text |-> <<>>, w |-> w]
        ELSE IF kind = "count"
        THEN [ok |-> TRUE, result |-> "ROW", text |-> IntToText(RowCount(rows)), w |-> w]
        ELSE IF kind = "max"
        THEN IF Present(rows) = {}
             THEN [ok |-> TRUE, result |-> "DONE", text |-> <<>>, w |-> w]
             ELSE [ok |-> TRUE, result |-> "ROW", text |-> CellText(TopCell(rows)), w |-> w]
        ELSE [ok |-> TRUE, result |-> "DONE", text |-> <<>>,
              w |-> [w EXCEPT !.db[p].rows = EmptyRows]]

\* ------------------------------------------------------------ the helper
\* What a helper call hands back: the world after it, the handle or the
\* success flag it returns, the value written through the out pointer, the
\* engine's result code, the step result, and the calls it made.
Result(w, dbHandle, ok, outSet, out, rc, result, calls) ==
    [w |-> w, dbHandle |-> dbHandle, ok |-> ok, outSet |-> outSet, out |-> out,
     rc |-> rc, result |-> result, calls |-> calls]

fileExists(w, filePath) == w.fs[filePath] = "readable"

openSQLiteDatabaseHelper_noClose(w, filePath, sqliteFlags, eng) ==
    LET o == sqlite3_open_v2(w, filePath, sqliteFlags, eng)
    IN  Result(o.w, IF o.rc # "OK" THEN NULL ELSE o.handle, o.rc = "OK", FALSE, 0,
               o.rc, "NONE", Bump(NoCalls, "open"))

openSQLiteDatabaseHelper(w, filePath, sqliteFlags, eng) ==
    LET o == sqlite3_open_v2(w, filePath, sqliteFlags, eng)
    IN  IF o.rc # "OK"
        THEN LET c == sqlite3_close(o.w, o.handle, FALSE)
             IN  Result(c.w, NULL, FALSE, FALSE, 0, o.rc, "NONE",
                        Bump(Bump(NoCalls, "open"), "close"))
        ELSE Result(o.w, o.handle, TRUE, FALSE, 0, o.rc, "NONE", Bump(NoCalls, "open"))

createSQLiteDatabase_noGuard(w, filePath, eng) ==
    openSQLiteDatabaseHelper(w, filePath, {"READWRITE", "CREATE"}, eng)

createSQLiteDatabase_noCreateFlag(w, filePath, eng) ==
    IF fileExists(w, filePath)
    THEN Result(w, NULL, FALSE, FALSE, 0, "NONE", "NONE", NoCalls)
    ELSE openSQLiteDatabaseHelper(w, filePath, {"READWRITE"}, eng)

createSQLiteDatabase(w, filePath, eng) ==
    IF fileExists(w, filePath)
    THEN Result(w, NULL, FALSE, FALSE, 0, "NONE", "NONE", NoCalls)
    ELSE openSQLiteDatabaseHelper(w, filePath, {"READWRITE", "CREATE"}, eng)

openSQLiteDatabase_noGuard(w, filePath, eng) ==
    openSQLiteDatabaseHelper(w, filePath, {"READWRITE"}, eng)

openSQLiteDatabase(w, filePath, eng) ==
    IF ~fileExists(w, filePath)
    THEN Result(w, NULL, FALSE, FALSE, 0, "NONE", "NONE", NoCalls)
    ELSE openSQLiteDatabaseHelper(w, filePath, {"READWRITE"}, eng)

closeSQLiteDatabase_earlyReturn(w, dbHandle, busy) ==
    IF dbHandle = NULL
    THEN Result(w, dbHandle, FALSE, FALSE, 0, "NONE", "NONE", NoCalls)
    ELSE LET c == sqlite3_close(w, dbHandle, busy)
         IN  Result(c.w, dbHandle, c.rc = "OK", FALSE, 0, c.rc, "NONE", Bump(NoCalls, "close"))

\* The null check only logs: the close call is made with any handle.
closeSQLiteDatabase(w, dbHandle, busy) ==
    LET c == sqlite3_close(w, dbHandle, busy)
    IN  Result(c.w, dbHandle, c.rc = "OK", FALSE, 0, c.rc, "NONE", Bump(NoCalls, "close"))

performQuery_ignoresRcode(w, dbHandle, sqlString, engFail) ==
    IF dbHandle = NULL
    THEN Result(w, dbHandle, FALSE, FALSE, 0, "NONE", "NONE", NoCalls)
    ELSE LET e == sqlite3_exec(w, dbHandle, sqlString, engFail)
         IN  Result(e.w, dbHandle, TRUE, FALSE, 0, e.rc, "NONE", Bump(NoCalls, "exec"))

performQuery(w, dbHandle, sqlString, engFail) ==
    IF dbHandle = NULL
    THEN Result(w, dbHandle, FALSE, FALSE, 0, "NONE", "NONE", NoCalls)
    ELSE LET e == sqlite3_exec(w, dbHandle, sqlString, engFail)
         IN  Result(e.w, dbHandle, e.rc = "OK", FALSE, 0, e.rc, "NONE", Bump(NoCalls, "exec"))

\* The calls of a statement that was prepared, stepped n times and released.
StatementCalls(nStep) ==
    [NoCalls EXCEPT !.prepare = 1, !.step = nStep, !.finalize = 1]

getNumberTableRows_leakOnStepFailure(w, dbHandle, numberRowsNull, prepFail, stepFail) ==
    IF dbHandle = NULL \/ numberRowsNull
    THEN Result(w, dbHandle, FALSE, FALSE, 0, "NONE", "NONE", NoCalls)
    ELSE LET s == StatementNew(w, dbHandle, prepFail)
         IN  IF ~s.valid
             THEN Result(StatementDelete(s.w), dbHandle, FALSE, FALSE, 0, "ERROR", "NONE",
                         StatementCalls(0))
             ELSE LET st == StatementStep(s.w, dbHandle, "count", stepFail)
                      v == stringToInt(st.text)
                  IN  IF ~st.ok
                      THEN Result(st.w, dbHandle, FALSE, FALSE, 0, "OK", st.result,
                                  [StatementCalls(1) EXCEPT !.finalize = 0])
                      ELSE Result(StatementDelete(st.w), dbHandle, v.ok, v.ok, v.value,
                                  "OK", st.result, StatementCalls(1))

getNumberTableRows(w, dbHandle, numberRowsNull, prepFail, stepFail) ==
    IF dbHandle = NULL
    THEN Result(w, dbHandle, FALSE, FALSE, 0, "NONE", "NONE", NoCalls)
    ELSE IF numberRowsNull
    THEN Result(w, dbHandle, FALSE, FALSE, 0, "NONE", "NONE", NoCalls)
    ELSE LET s == StatementNew(w, dbHandle, prepFail)
         IN  IF ~s.valid
             THEN Result(StatementDelete(s.w), dbHandle, FALSE, FALSE, 0, "ERROR", "NONE",
                         StatementCalls(0))
             ELSE LET st == StatementStep(s.w, dbHandle, "count", stepFail)
                      v == stringToInt(st.text)
                  IN  IF ~st.ok
                      THEN Result(StatementDelete(st.w), dbHandle, FALSE, FALSE, 0, "OK",
                                  st.result, StatementCalls(1))
                      ELSE IF ~v.ok
                      THEN Result(StatementDelete(st.w), dbHandle, FALSE, FALSE, 0, "OK",
                                  st.result, StatementCalls(1))
                      ELSE Result(StatementDelete(st.w), dbHandle, TRUE, TRUE, v.value, "OK",
                                  st.result, StatementCalls(1))

getTableMaxIntValue_noZeroOnDone(w, dbHandle, maxIdNull, prepFail, stepFail) ==
    IF maxIdNull
    THEN Result(w, dbHandle, FALSE, FALSE, 0, "NONE", "NONE", NoCalls)
    ELSE LET s == StatementNew(w, dbHandle, prepFail)
         IN  IF ~s.valid
             THEN Result(StatementDelete(s.w), dbHandle, FALSE, FALSE, 0, "ERROR", "NONE",
                         StatementCalls(0))
             ELSE LET st == StatementStep(s.w, dbHandle, "max", stepFail)
                      v == stringToInt(st.text)
                  IN  IF ~st.ok \/ st.result \notin {"ROW", "DONE"}
                      THEN Result(StatementDelete(st.w), dbHandle, FALSE, FALSE, 0, "OK",
                                  st.result, StatementCalls(1))
                      ELSE IF st.result = "DONE"
                      THEN Result(StatementDelete(st.w), dbHandle, TRUE, FALSE, 0, "OK",
                                  st.result, StatementCalls(1))
                      ELSE Result(StatementDelete(st.w), dbHandle, v.ok, v.ok, v.value, "OK",
                                  st.result, StatementCalls(1))

\* Only the out pointer is checked: a null handle reaches the statement.
getTableMaxIntValue(w, dbHandle, maxIdNull, prepFail, stepFail) ==
    IF maxIdNull
    THEN Result(w, dbHandle, FALSE, FALSE, 0, "NONE", "NONE", NoCalls)
    ELSE LET s == StatementNew(w, dbHandle, prepFail)
         IN  IF ~s.valid
             THEN Result(StatementDelete(s.w), dbHandle, FALSE, FALSE, 0, "ERROR", "NONE",
                         StatementCalls(0))
             ELSE LET st == StatementStep(s.w, dbHandle, "max", stepFail)
                      v == stringToInt(st.text)
                  IN  IF ~st.ok
                      THEN Result(StatementDelete(st.w), dbHandle, FALSE, FALSE, 0, "OK",
                                  st.result, StatementCalls(1))
                      ELSE IF st.result # "ROW" /\ st.result # "DONE"
                      THEN Result(StatementDelete(st.w), dbHandle, FALSE, FALSE, 0, "OK",
                                  st.result, StatementCalls(1))
                      ELSE IF st.result = "DONE"
                      THEN Result(StatementDelete(st.w), dbHandle, TRUE, TRUE, 0, "OK",
                                  st.result, StatementCalls(1))
                      ELSE IF ~v.ok
                      THEN Result(StatementDelete(st.w), dbHandle, FALSE, FALSE, 0, "OK",
                                  st.result, StatementCalls(1))
                      ELSE Result(StatementDelete(st.w), dbHandle, TRUE, TRUE, v.value, "OK",
                                  st.result, StatementCalls(1))

clearTable_ignoresStep(w, dbHandle, prepFail, stepFail) ==
    IF dbHandle = NULL
    THEN Result(w, dbHandle, FALSE, FALSE, 0, "NONE", "NONE", NoCalls)
    ELSE LET s == StatementNew(w, dbHandle, prepFail)
         IN  IF ~s.valid
             THEN Result(StatementDelete(s.w), dbHandle, FALSE, FALSE, 0, "ERROR", "NONE",
                         StatementCalls(0))
             ELSE LET st == StatementStep(s.w, dbHandle, "clear", stepFail)
                  IN  Result(StatementDelete(st.w), dbHandle, TRUE, FALSE, 0, "OK",
                             st.result, StatementCalls(1))

clearTable(w, dbHandle, prepFail, stepFail) ==
    IF dbHandle = NULL
    THEN Result(w, dbHandle, FALSE, FALSE, 0, "NONE", "NONE", NoCalls)
    ELSE LET s == StatementNew(w, dbHandle, prepFail)
         IN  IF ~s.valid
             THEN Result(StatementDelete(s.w), dbHandle, FALSE, FALSE, 0, "ERROR", "NONE",
                         StatementCalls(0))
             ELSE LET st == StatementStep(s.w, dbHandle, "clear", stepFail)
                  IN  IF ~st.ok
                      THEN Result(StatementDelete(st.w), dbHandle, FALSE, FALSE, 0, "OK",
                                  st.result, StatementCalls(1))
                      ELSE Result(StatementDelete(st.w), dbHandle, TRUE, FALSE, 0, "OK",
                                  st.result, StatementCalls(1))

\* ------------------------------------------------------------- the state
World == [fs |-> fs, conns |-> conns, db |-> db, stmts |-> stmts]

Commit(w) ==
    /\ fs' = w.fs
    /\ conns' = w.conns
    /\ db' = w.db
    /\ stmts' = w.stmts

\* The record of a call: its name and arguments, and what it handed back.
Called(op, path, h, outNull, eng, r) ==
    [op |-> op, path |-> path, h |-> h, outNull |-> outNull, eng |-> eng,
     dbHandle |-> r.dbHandle, ok |-> r.ok, outSet |-> r.outSet, out |-> r.out,
     rc |-> r.rc, result |-> r.result, calls |-> r.calls]

NoScen == [stage |-> 0, path |-> NoPath, h |-> NULL, ok |-> TRUE]

\* The handles a caller passes: null, or one it was given and has not closed.
Passable == {NULL} \cup held

Init ==
    /\ fs \in [Paths -> {"absent", "readable", "unreadable"}]
    /\ conns = [h \in Handles |-> NoPath]
    /\ db = [p \in Paths |-> NoTable]
    /\ stmts = 0
    /\ held = {}
    /\ last = Called("none", NoPath, NULL, FALSE, "ok",
                     Result(World, NULL, FALSE, FALSE, 0, "NONE", "NONE", NoCalls))
    /\ scen = NoScen
    /\ cleared = [p \in Paths |-> {}]

CallCreate ==
    \E filePath \in Paths, eng \in OpenChoices :
        /\ FreeHandles(World) # {}
        /\ LET r == createSQLiteDatabase(World, filePath, eng)
           IN  /\ Commit(r.w)
               /\ held' = IF r.dbHandle # NULL THEN held \cup {r.dbHandle} ELSE held
               /\ last' = Called("create", filePath, NULL, FALSE, eng, r)
               /\ scen' = IF fs[filePath] = "absent" /\ eng = "ok"
                          THEN [stage |-> 1, path |-> filePath, h |-> r.dbHandle,
                                ok |-> r.dbHandle # NULL /\ r.w.fs[filePath] = "readable"]
                          ELSE NoScen
        /\ UNCHANGED cleared

CallOpen ==
    \E filePath \in Paths, eng \in OpenChoices :
        /\ FreeHandles(World) # {}
        /\ LET r == openSQLiteDatabase(World, filePath, eng)
           IN  /\ Commit(r.w)
               /\ held' = IF r.dbHandle # NULL THEN held \cup {r.dbHandle} ELSE held
               /\ last' = Called("open", filePath, NULL, FALSE, eng, r)
               /\ scen' = IF scen.stage = 2 /\ scen.path = filePath /\ eng = "ok"
                          THEN [scen EXCEPT !.stage = 3, !.h = r.dbHandle,
                                            !.ok = scen.ok /\ r.dbHandle # NULL]
                          ELSE NoScen
        /\ UNCHANGED cleared

CallClose ==
    \E dbHandle \in Passable, busy \in BOOLEAN :
        /\ LET r == closeSQLiteDatabase(World, dbHandle, busy)
           IN  /\ Commit(r.w)
               /\ held' = IF r.ok THEN held \ {dbHandle} ELSE held
               /\ last' = Called("close", NoPath, dbHandle, FALSE,
                                IF busy THEN "busy" ELSE "ok", r)
               /\ scen' = IF scen.stage = 1 /\ scen.h = dbHandle /\ dbHandle # NULL /\ ~busy
                          THEN [scen EXCEPT !.stage = 2, !.ok = scen.ok /\ r.ok]
                          ELSE NoScen
        /\ UNCHANGED cleared

CallPerformQuery ==
    \E dbHandle \in Passable, sqlString \in Sql, engFail \in BOOLEAN :
        /\ sqlString.verb = "insert" => TotalRows(db) < MaxRows
        /\ LET r == performQuery(World, dbHandle, sqlString, engFail)
           IN  /\ Commit(r.w)
               /\ last' = Called("exec", NoPath, dbHandle, FALSE,
                                IF engFail THEN "fail" ELSE "ok", r)
               /\ cleared' = IF dbHandle # NULL /\ sqlString.verb = "insert"
                                THEN [cleared EXCEPT ![conns[dbHandle]] = {}]
                                ELSE cleared
        /\ scen' = NoScen
        /\ UNCHANGED held

CallGetNumberTableRows ==
    \E dbHandle \in Passable, numberRowsNull \in BOOLEAN, eng \in StatementChoices :
        /\ LET r == getNumberTableRows(World, dbHandle, numberRowsNull,
                                    eng = "prepare_fails", eng = "step_fails")
           IN  /\ Commit(r.w)
               /\ last' = Called("count", NoPath, dbHandle, numberRowsNull, eng, r)
        /\ scen' = NoScen
        /\ UNCHANGED <<held, cleared>>

CallGetTableMaxIntValue ==
    \E dbHandle \in Passable, maxIdNull \in BOOLEAN, eng \in StatementChoices :
        /\ LET r == getTableMaxIntValue(World, dbHandle, maxIdNull,
                                    eng = "prepare_fails", eng = "step_fails")
           IN  /\ Commit(r.w)
               /\ last' = Called("max", NoPath, dbHandle, maxIdNull, eng, r)
        /\ scen' = NoScen
        /\ UNCHANGED <<held, cleared>>

CallClearTable ==
    \E dbHandle \in Passable, eng \in StatementChoices :
        /\ LET r == clearTable(World, dbHandle, eng = "prepare_fails", eng = "step_fails")
           IN  /\ Commit(r.w)
               /\ last' = Called("clear", NoPath, dbHandle, FALSE, eng, r)
               /\ cleared' = IF r.ok
                                THEN [cleared EXCEPT ![conns[dbHandle]] =
                                         {RowCount(db[conns[dbHandle]].rows)}]
                                ELSE cleared
        /\ scen' = NoScen
        /\ UNCHANGED held

Next ==
    \/ CallCreate
    \/ CallOpen
    \/ CallClose
    \/ CallPerformQuery
    \/ CallGetNumberTableRows
    \/ CallGetTableMaxIntValue
    \/ CallClearTable

Spec == Init /\ [][Next]_vars

\* -------------------------------------------------------------- the claims
OpenConnections == {h \in Handles : conns[h] # NoPath}

\* The largest integer among the rows, computed from the rows alone.
LargestInt(rows) ==
    CHOOSE m \in {c.n : c \in Present(rows)} : \A c \in Present(rows) : c.n <= m

\* C1: createSQLiteDatabase on a path where the existence probe succeeds
\* returns the null handle, makes no engine open call, and leaves the open
\* connections and the files as they were.
C1_CreateOnExistingFileFails ==
    [][(last'.op = "create" /\ fileExists(World, last'.path))
         => /\ last'.dbHandle = NULL
            /\ last'.calls.open = 0
            /\ conns' = conns
            /\ fs' = fs]_vars

C1_Witness ==
    /\ last.op = "create"
    /\ fs[last.path] = "readable"
    /\ last.dbHandle = NULL
    /\ last.calls = NoCalls
    /\ last.eng = "ok"

\* C2: openSQLiteDatabase on a path where the existence probe fails returns
\* the null handle, makes no engine open call and creates no file.
C2_OpenOnMissingFileFails ==
    [][(last'.op = "open" /\ ~fileExists(World, last'.path))
         => /\ last'.dbHandle = NULL
            /\ last'.calls.open = 0
            /\ conns' = conns
            /\ fs' = fs]_vars

C2_Witness ==
    /\ last.op = "open"
    /\ fs[last.path] = "absent"
    /\ last.dbHandle = NULL
    /\ last.calls = NoCalls
    /\ last.eng = "ok"

\* C3: from a path with no file, create, then close of the handle create
\* returned, then open of the same path, succeed at every step when the
\* engine accepts the open and close calls: create returns a handle and
\* leaves a file, close returns true, open returns a handle.
C3_CreateCloseOpenSucceeds == scen.stage >= 1 => scen.ok

C3_Witness ==
    /\ scen.stage = 3
    /\ scen.ok
    /\ last.op = "open"
    /\ last.dbHandle # NULL
    /\ fs[scen.path] = "readable"

\* C4: performQuery, getNumberTableRows, getTableMaxIntValue and clearTable,
\* called with a null handle and otherwise valid arguments, return failure
\* without constructing a statement and without any engine call.
C4_NullHandleIsRejectedEverywhere ==
    (last.op \in {"exec", "count", "max", "clear"} /\ last.h = NULL /\ ~last.outNull)
        => (~last.ok /\ last.calls = NoCalls)

\* C5: performQuery with a null handle fails without an exec call; with a
\* handle it makes exactly one exec call and returns true exactly when the
\* result code of that call is OK.
C5_PerformQueryOneExec ==
    last.op = "exec"
        => IF last.h = NULL
           THEN ~last.ok /\ last.calls.exec = 0
           ELSE /\ last.calls.exec = 1
                /\ last.ok <=> (last.rc = "OK")
                /\ last.eng = "fail" => ~last.ok

C5_Witness ==
    /\ last.op = "exec"
    /\ last.h # NULL
    /\ last.eng = "fail"
    /\ ~last.ok
    /\ last.calls.exec = 1

\* C6: getTableMaxIntValue on an open connection with an out pointer: an
\* empty table gives success and 0; a table with rows gives success and the
\* largest value of the column; a failed step, a step result that is neither
\* ROW nor DONE, or a column text that is no integer gives failure.
C6_MaxIntValue ==
    (last.op = "max" /\ last.h # NULL /\ ~last.outNull /\ db[conns[last.h]].hasTable)
        => LET rows == db[conns[last.h]].rows
           IN  /\ last.eng = "step_fails" => ~last.ok
               /\ (last.calls.step = 1 /\ last.result \notin {"ROW", "DONE"}) => ~last.ok
               /\ last.eng = "ok" =>
                    IF RowCount(rows) = 0
                    THEN last.ok /\ last.outSet /\ last.out = 0
                    ELSE IF \A c \in Present(rows) : c.isInt
                    THEN last.ok /\ last.outSet /\ last.out = LargestInt(rows)
                    ELSE ~last.ok

C6_Witness ==
    /\ last.op = "max"
    /\ last.ok
    /\ last.out = 5
    /\ \A v \in {1, 3, 5} : db[conns[last.h]].rows[[isInt |-> TRUE, n |-> v]] = 1

C8_CloseAlwaysCallsEngine ==
    last.op = "close" => (last.calls.close = 1 /\ (last.ok <=> last.rc = "OK"))

C8_Witness ==
    /\ last.op = "close"
    /\ last.h = NULL
    /\ last.calls.close = 1
    /\ last.ok

\* C9: no statement outlives the call that constructed it, on any exit path,
\* and a call constructs at most one statement and steps it at most once.
C9_StatementsAreCallScoped ==
    /\ stmts = 0
    /\ last.calls.prepare <= 1
    /\ last.calls.step <= 1
    /\ last.calls.finalize = last.calls.prepare

C9_Witness ==
    /\ last.op = "count"
    /\ last.eng = "step_fails"
    /\ ~last.ok
    /\ last.calls.prepare = 1
    /\ last.calls.step = 1
    /\ stmts = 0

\* C10: the connections open in the engine are exactly the handles returned
\* to the caller and not yet closed with success: a failed open leaves none.
C10_NoHandleLeak == OpenConnections = held

C10_Witness ==
    /\ last.op \in {"create", "open"}
    /\ last.rc = "CANTOPEN"
    /\ last.calls.close = 1
    /\ last.dbHandle = NULL
    /\ held # {}
    /\ OpenConnections = held

====
